---- MODULE Spec2Model ----
(***************************************************************************)
(* gpstrace.py: Location, Route, TravelTracer.choose_route,                *)
(* TravelTracer.generate_pings and TravelTracer.trace.                     *)
(*                                                                         *)
(* Timestamps are integer seconds counted from a Monday 00:00:00, a        *)
(* timedelta is an integer number of seconds, and a probability is an      *)
(* integer number of tenths (10 stands for 1.0).  A route is identified by *)
(* its position in self.routes (1..Len(routes)); position 0 stands for     *)
(* None.                                                                   *)
(***************************************************************************)
EXTENDS Integers, Sequences, FiniteSets

VARIABLES
    locations,   \* self.locations: name -> visit_time tuple <<min, max>>
    routes,      \* self.routes: the ordered list of constructed Route objects
    pc,          \* position of the caller / of trace()
    start_time,  \* trace(): start_time
    end_time,    \* trace(): end_time
    Tc,          \* trace(): current timestamp
    Lc,          \* trace(): current location
    route,       \* trace(): the route chosen by choose_route (position, 0 = None)
    wi,          \* trace(): position of the waypoint loop in route.waypoints
    visit_time,  \* trace(): the dwell last drawn for a start or end location
    points,      \* trace(): the list of (location, timestamp) tuples
    iter_start   \* Tc as it was when the running loop iteration was entered

vars == <<locations, routes, pc, start_time, end_time, Tc, Lc, route, wi, visit_time, points, iter_start>>

(***************************************************************************)
(* Bounds of the model.                                                    *)
(***************************************************************************)
MaxRoutes == 2       \* routes in self.routes
MaxPoints == 4       \* a new loop iteration is entered only below this many points
MaxDwell == 1300     \* largest dwell handed to generate_pings on its own

(***************************************************************************)
(* Program constants.                                                      *)
(***************************************************************************)
VISIT_PING_TIME == 600
DaySeconds == 86400
ProbOne == 10

LocNames == {"A", "B", "C"}
NotALocation == "none"

\* datetime.weekday(): Monday = 0 ... Sunday = 6
Weekday(t) == (t \div DaySeconds) % 7

(***************************************************************************)
(* Location                                                                *)
(***************************************************************************)
\* The visit_time tuples a location may be configured with.
DwellRanges == {<<0, 0>>, <<600, 601>>}

\* Location.random_visit: random.randint(min, max), every value in the range
random_visit(loc) == locations[loc][1] .. locations[loc][2]

(***************************************************************************)
(* Route                                                                   *)
(***************************************************************************)
\* Route.__init__: the checks that raise TypeError
RouteInitRaises(a) ==
    \/ a.start_at \notin LocNames
    \/ a.end_at \notin LocNames
    \/ ~a.probability.float
    \/ (a.probability.val < 0 /\ a.probability.val > ProbOne)
    \/ \E i \in 1..Len(a.waypoints) : a.waypoints[i] \notin LocNames

\* Route.__init__: the fields of the constructed object
RouteInit(a) ==
    [start_at    |-> a.start_at,
     end_at      |-> a.end_at,
     waypoints   |-> a.waypoints,
     probability |-> a.probability.val,
     weekdays    |-> IF a.weekdays = {} THEN 0..7 ELSE a.weekdays]

(***************************************************************************)
(* TravelTracer.choose_route                                               *)
(***************************************************************************)
\* variants of the scan condition: ties replace the incumbent; the weekday is ignored
Better_Tie(r, weekday, start_at, max_probability) ==
    /\ r.start_at = start_at
    /\ weekday \in r.weekdays
    /\ r.probability >= max_probability

Better_AnyDay(r, weekday, start_at, max_probability) ==
    /\ r.start_at = start_at
    /\ r.probability > max_probability

\* the condition of the scan that replaces the incumbent
Better(r, weekday, start_at, max_probability) ==
    /\ r.start_at = start_at
    /\ weekday \in r.weekdays
    /\ r.probability > max_probability

RECURSIVE ChooseScan(_, _, _, _, _, _)
ChooseScan(rs, i, weekday, start_at, max_probability, chosen_route) ==
    IF i > Len(rs) THEN chosen_route
    ELSE IF Better(rs[i], weekday, start_at, max_probability)
         THEN ChooseScan(rs, i + 1, weekday, start_at, rs[i].probability, i)
         ELSE ChooseScan(rs, i + 1, weekday, start_at, max_probability, chosen_route)

\* variant: the scan starts from a sentinel below every probability
choose_route_LowSentinel(rs, weekday, start_at) == ChooseScan(rs, 1, weekday, start_at, -1, 0)

\* the position of the chosen route, 0 when NoAvailableRouteError is raised
choose_route(rs, weekday, start_at) == ChooseScan(rs, 1, weekday, start_at, 0, 0)

(***************************************************************************)
(* TravelTracer.generate_pings                                             *)
(***************************************************************************)
\* variant: the window is closed at its end
PingContinues_Closed(t, end) == t <= end

\* the loop condition of generate_pings
PingContinues(t, end) == t < end

RECURSIVE PingLoop(_, _, _)
PingLoop(t, end, pings) ==
    IF PingContinues(t, end)
    THEN PingLoop(t + VISIT_PING_TIME, end, Append(pings, t))
    ELSE pings

generate_pings(t, vt) == PingLoop(t, t + vt, <<>>)

\* points.append((location, pingtime)) for every pingtime
PingPoints(loc, t, vt) ==
    LET ps == generate_pings(t, vt)
    IN  [k \in 1..Len(ps) |-> <<loc, ps[k]>>]

(***************************************************************************)
(* TravelTracer.trace                                                      *)
(***************************************************************************)
\* variant: the loop still runs at end_time
LoopContinues_Closed(t, end) == t <= end

\* the loop condition of trace
LoopContinues(t, end) == t < end

\* variants: the dwell is subtracted; the dwell is dropped
Advance_Back(t, d) == t - d

Advance_None(t, d) == t

\* Tc += <timedelta>
Advance(t, d) == t + d

\* variant: a waypoint is expanded into pings like a start or end location
WaypointPoints_Expanded(wp, t, d) == PingPoints(wp, t, d)

\* the events appended for a waypoint reached at t, whose own dwell is d
WaypointPoints(wp, t, d) == << <<wp, t>> >>

\* the arguments Route() is called with before a trace
RouteArgs ==
    [start_at    : {"A", "B"},
     end_at      : {"A", "B"},
     waypoints   : {<<>>, <<"C", "B">>},
     probability : {[float |-> TRUE, val |-> ProbOne], [float |-> FALSE, val |-> 1]},
     weekdays    : {{}, {0}}]

\* the location directories a trace runs on
Directories ==
    {d \in [LocNames -> DwellRanges \cup {<<601, 601>>}] :
        d["A"] \in DwellRanges /\ d["B"] \in DwellRanges /\ d["C"] = <<601, 601>>}

StartTimes == {0, DaySeconds - 600}
EndOffsets == {0, 1201}

Init ==
    /\ locations \in Directories
    /\ routes = <<>>
    /\ pc = "config"
    /\ start_time = 0
    /\ end_time = 0
    /\ Tc = 0
    /\ Lc = "A"
    /\ route = 0
    /\ wi = 0
    /\ visit_time = 0
    /\ points = <<>>
    /\ iter_start = 0

\* self.routes.append(Route(...))
AddRoute(a) ==
    /\ pc = "config"
    /\ Len(routes) < MaxRoutes
    /\ ~RouteInitRaises(a)
    /\ routes' = Append(routes, RouteInit(a))
    /\ UNCHANGED <<locations, pc, start_time, end_time, Tc, Lc, route, wi, visit_time,
                   points, iter_start>>

\* Route(...) raises TypeError
RejectRoute(a) ==
    /\ pc = "config"
    /\ Len(routes) < MaxRoutes
    /\ RouteInitRaises(a)
    /\ pc' = "cfgerror"
    /\ UNCHANGED <<locations, routes, start_time, end_time, Tc, Lc, route, wi, visit_time,
                   points, iter_start>>

\* trace(start_at, start_time, end_time): lines 257-266
StartTrace(start_at, st, given, off) ==
    /\ pc = "config"
    /\ start_time' = st
    /\ end_time' = IF given THEN st + off ELSE st + DaySeconds
    /\ points' = <<>>
    /\ Tc' = st
    /\ Lc' = start_at
    /\ pc' = "loop"
    /\ UNCHANGED <<locations, routes, route, wi, visit_time, iter_start>>

\* while Tc < end_time: route = self.choose_route(Tc.weekday(), Lc)
LoopChoose ==
    /\ pc = "loop"
    /\ Len(points) < MaxPoints
    /\ LoopContinues(Tc, end_time)
    /\ choose_route(routes, Weekday(Tc), Lc) # 0
    /\ route' = choose_route(routes, Weekday(Tc), Lc)
    /\ iter_start' = Tc
    /\ pc' = "start"
    /\ UNCHANGED <<locations, routes, start_time, end_time, Tc, Lc, wi, visit_time, points>>

\* choose_route raises NoAvailableRouteError, which trace does not catch
LoopRaise ==
    /\ pc = "loop"
    /\ LoopContinues(Tc, end_time)
    /\ choose_route(routes, Weekday(Tc), Lc) = 0
    /\ pc' = "raised"
    /\ UNCHANGED <<locations, routes, start_time, end_time, Tc, Lc, route, wi, visit_time,
                   points, iter_start>>

\* the loop condition fails: return points
LoopExit ==
    /\ pc = "loop"
    /\ ~LoopContinues(Tc, end_time)
    /\ pc' = "done"
    /\ UNCHANGED <<locations, routes, start_time, end_time, Tc, Lc, route, wi, visit_time,
                   points, iter_start>>

\* lines 271-274
VisitStart ==
    /\ pc = "start"
    /\ \E d \in random_visit(routes[route].start_at) :
        /\ visit_time' = d
        /\ points' = points \o PingPoints(routes[route].start_at, Tc, d)
        /\ Tc' = Advance(Tc, d)
    /\ wi' = 1
    /\ pc' = IF routes[route].waypoints = <<>> THEN "end" ELSE "wp"
    /\ UNCHANGED <<locations, routes, start_time, end_time, Lc, route, iter_start>>

\* lines 276-278, one waypoint
VisitWaypoint ==
    /\ pc = "wp"
    /\ LET wp == routes[route].waypoints[wi]
       IN  \E d \in random_visit(wp) :
            /\ points' = points \o WaypointPoints(wp, Tc, d)
            /\ Tc' = Advance(Tc, d)
    /\ wi' = wi + 1
    /\ pc' = IF wi = Len(routes[route].waypoints) THEN "end" ELSE "wp"
    /\ UNCHANGED <<locations, routes, start_time, end_time, Lc, route, visit_time, iter_start>>

\* lines 280-285
VisitEnd ==
    /\ pc = "end"
    /\ \E d \in random_visit(routes[route].end_at) :
        /\ visit_time' = d
        /\ points' = points \o PingPoints(routes[route].end_at, Tc, d)
        /\ Tc' = Advance(Tc, d)
    /\ Lc' = routes[route].end_at
    /\ pc' = "loop"
    /\ UNCHANGED <<locations, routes, start_time, end_time, route, wi, iter_start>>

Next ==
    \/ \E a \in RouteArgs : AddRoute(a)
    \/ \E a \in RouteArgs : RejectRoute(a)
    \/ \E s \in {"A", "B"}, st \in StartTimes, given \in BOOLEAN, off \in EndOffsets :
          StartTrace(s, st, given, off)
    \/ LoopChoose
    \/ LoopRaise
    \/ LoopExit
    \/ VisitStart
    \/ VisitWaypoint
    \/ VisitEnd

Spec == Init /\ [][Next]_vars

(***************************************************************************)
(* choose_route on its own: routes are constructed, then one call          *)
(* route = self.choose_route(t.weekday(), l) is made.                      *)
(***************************************************************************)
SelRouteArgs ==
    [start_at    : {"A", "B"},
     end_at      : {"B"},
     waypoints   : {<<>>},
     probability : {[float |-> TRUE, val |-> 0],
                    [float |-> TRUE, val |-> 5],
                    [float |-> TRUE, val |-> ProbOne],
                    [float |-> TRUE, val |-> 15],
                    [float |-> FALSE, val |-> 1]},
     weekdays    : {{}, {0}}]

SelTimes == {d * DaySeconds : d \in 0..6}

SelInit ==
    /\ locations = [l \in LocNames |-> <<0, 0>>]
    /\ routes = <<>>
    /\ pc = "config"
    /\ start_time = 0
    /\ end_time = 0
    /\ Tc = 0
    /\ Lc = "A"
    /\ route = 0
    /\ wi = 0
    /\ visit_time = 0
    /\ points = <<>>
    /\ iter_start = 0

\* choose_route returns chosen_route
SelectReturn(t, l) ==
    /\ pc = "config"
    /\ choose_route(routes, Weekday(t), l) # 0
    /\ route' = choose_route(routes, Weekday(t), l)
    /\ Tc' = t
    /\ Lc' = l
    /\ pc' = "chosen"
    /\ UNCHANGED <<locations, routes, start_time, end_time, wi, visit_time, points, iter_start>>

\* choose_route raises NoAvailableRouteError
SelectRaise(t, l) ==
    /\ pc = "config"
    /\ choose_route(routes, Weekday(t), l) = 0
    /\ route' = 0
    /\ Tc' = t
    /\ Lc' = l
    /\ pc' = "noroute"
    /\ UNCHANGED <<locations, routes, start_time, end_time, wi, visit_time, points, iter_start>>

SelNext ==
    \/ \E a \in SelRouteArgs : AddRoute(a)
    \/ \E a \in SelRouteArgs : RejectRoute(a)
    \/ \E t \in SelTimes, l \in {"A", "B"} : SelectReturn(t, l)
    \/ \E t \in SelTimes, l \in {"A", "B"} : SelectRaise(t, l)

SelSpec == SelInit /\ [][SelNext]_vars

(***************************************************************************)
(* generate_pings on its own: one call for location Lc, start Tc and       *)
(* dwell visit_time.                                                       *)
(***************************************************************************)
PingInit ==
    /\ locations = [l \in LocNames |-> <<0, 0>>]
    /\ routes = <<>>
    /\ pc = "ping"
    /\ start_time = 0
    /\ end_time = 0
    /\ Tc \in StartTimes
    /\ Lc = "A"
    /\ route = 0
    /\ wi = 0
    /\ visit_time \in 0..MaxDwell
    /\ points = <<>>
    /\ iter_start = 0

GeneratePings ==
    /\ pc = "ping"
    /\ points' = PingPoints(Lc, Tc, visit_time)
    /\ pc' = "pinged"
    /\ UNCHANGED <<locations, routes, start_time, end_time, Tc, Lc, route, wi, visit_time,
                   iter_start>>

PingNext == GeneratePings

PingSpec == PingInit /\ [][PingNext]_vars

(***************************************************************************)
(* Properties                                                              *)
(***************************************************************************)
\* a route that starts at loc and is active on weekday
Eligible(r, weekday, loc) == r.start_at = loc /\ weekday \in r.weekdays

EligibleRoutes == {j \in 1..Len(routes) : Eligible(routes[j], Weekday(Tc), Lc)}

Selected == pc \in {"chosen", "noroute"}

\* C1: when the loop of trace reaches, with current_time < end_time, a
\* (current_location, weekday) pair with no eligible route, the loop stops and
\* trace returns the points accumulated so far; the error is not surfaced.
C1_ExhaustionReturnsPartialTrace ==
    [][(pc = "loop" /\ Tc < end_time /\ EligibleRoutes = {})
          => (pc' = "done" /\ points' = points)]_vars

\* C2: a route returned by choose_route is eligible, its probability is >= that
\* of every eligible route, and it is the first of the eligible routes that
\* have that probability.
C2_ChosenIsFirstMaximum ==
    pc = "chosen" =>
        /\ route \in EligibleRoutes
        /\ \A j \in EligibleRoutes :
              /\ routes[route].probability >= routes[j].probability
              /\ routes[j].probability = routes[route].probability => route <= j

C2_TieWitness ==
    /\ pc = "chosen"
    /\ \E j \in EligibleRoutes :
          j > route /\ routes[j].probability = routes[route].probability

\* C3 as stated: choose_route fails exactly when no eligible route exists, and
\* returns a route whenever an eligible route exists.
C3_FailsIffNoEligible == Selected => (pc = "noroute" <=> EligibleRoutes = {})

\* C3 amended: choose_route returns a route exactly when an eligible route with
\* a probability above 0 exists, and fails with NoAvailableRouteError otherwise.
C3_ReturnsIffPositiveEligible ==
    Selected =>
        (pc = "chosen" <=> \E j \in EligibleRoutes : routes[j].probability > 0)

C3_ZeroOnlyWitness ==
    /\ pc = "noroute"
    /\ Len(routes) = 2
    /\ EligibleRoutes # {}
    /\ \A j \in EligibleRoutes : routes[j].probability = 0

\* C4 as stated: every iteration of the loop of trace strictly increases
\* current_time.
C4_IterationStrictlyIncreases ==
    [][(pc = "end" /\ pc' = "loop") => Tc' > iter_start]_vars

RECURSIVE SumDwell(_, _)
SumDwell(ws, k) ==
    IF ws = <<>> THEN 0 ELSE locations[Head(ws)][k] + SumDwell(Tail(ws), k)

\* the stops of a route, in the order they are visited
Stops(r) == <<r.start_at>> \o r.waypoints \o <<r.end_at>>

\* C4 amended: an iteration of the loop of trace advances current_time by the
\* sum of the dwells drawn for the start, the waypoints and the end of the
\* chosen route, a value between the sum of their minimum and the sum of their
\* maximum dwells: it never decreases current_time, and it strictly increases
\* it only when one of the draws is positive.
C4_IterationAdvancesByDwells ==
    [][(pc = "end" /\ pc' = "loop") =>
          (Tc' >= iter_start + SumDwell(Stops(routes[route]), 1)
           /\ Tc' <= iter_start + SumDwell(Stops(routes[route]), 2))]_vars

C4_ProgressWitness ==
    /\ pc = "loop"
    /\ route # 0
    /\ Tc < end_time
    /\ Tc > iter_start
    /\ SumDwell(Stops(routes[route]), 1) > 0

\* C5: generate_pings(location, T, d) with d >= 0 emits the timestamps T,
\* T+600, T+1200, ... that are below T+d: ceil(d/600) of them when d > 0, none
\* when d = 0, and the last one is below T+d.
C5_PingCount ==
    pc = "pinged" =>
        /\ Len(points) = (IF visit_time > 0 THEN (visit_time + 599) \div 600 ELSE 0)
        /\ \A k \in 1..Len(points) : points[k] = <<Lc, Tc + 600 * (k - 1)>>
        /\ Len(points) > 0 => points[Len(points)][2] < Tc + visit_time

C5_TwoPingsWitness ==
    /\ pc = "pinged"
    /\ visit_time = 601
    /\ Len(points) = 2

WaypointStep ==
    /\ pc = "start" =>
            /\ wi' = 1
            /\ pc' = (IF Len(routes[route].waypoints) = 0 THEN "end" ELSE "wp")
    /\ pc = "wp" =>
            /\ points' = Append(points, <<routes[route].waypoints[wi], Tc>>)
            /\ wi' = wi + 1
            /\ pc' = (IF wi < Len(routes[route].waypoints) THEN "wp" ELSE "end")
            /\ Tc' >= Tc

NonDecreasing(ps) == \A k \in 1..(Len(ps) - 1) : ps[k][2] <= ps[k + 1][2]

ForwardStep ==
    pc \in {"loop", "start", "wp", "end"} =>
        /\ Tc' >= Tc
        /\ NonDecreasing(points')
        /\ Len(points') > 0 => points'[1][2] >= start_time

C8_ZeroNeverChosen == pc = "chosen" => routes[route].probability # 0

C8_OnlyZeroWitness ==
    /\ pc = "noroute"
    /\ Len(routes) = 1
    /\ EligibleRoutes = {1}
    /\ routes[1].probability = 0

\* C9: every constructed Route has a probability in [0,1]: the constructor
\* rejects the others.
C9_ProbabilityInRange ==
    \A i \in 1..Len(routes) :
        routes[i].probability >= 0 /\ routes[i].probability <= ProbOne

TraversalStep ==
    /\ (pc' = "start" /\ pc # "start") =>
            (pc = "loop" /\ Tc < end_time /\ routes[route'].start_at = Lc)
    /\ (pc' = "done" /\ pc # "done") => (pc = "loop" /\ Tc >= end_time)
    /\ pc = "start" => pc' \in {"wp", "end"}
    /\ pc = "wp" => (pc' = "end" <=> wi = Len(routes[route].waypoints))
    /\ pc = "wp" => pc' \in {"wp", "end"}
    /\ pc = "end" => (pc' = "loop" /\ Lc' = routes[route].end_at)
    /\ pc \in {"loop", "start", "wp"} => Lc' = Lc

\* C10: end_time is compared with current_time only on entry to an iteration:
\* a route is chosen at a current_time below end_time and starts at the
\* current location; once chosen it is traversed to its end, whatever
\* current_time becomes; the current location becomes the end of the route.
C10_EndTimeCheckedOnEntryOnly == [][TraversalStep]_vars

C10_PastEndWitness ==
    /\ pc = "done"
    /\ \E k \in 1..Len(points) : points[k][2] >= end_time

====
